---- MODULE Spec2Model ----
(***************************************************************************)
(* Model of the log-parsing core of app.py (Claude History Viewer):        *)
(* get_all_projects, get_project_sessions, get_session_messages,           *)
(* read_history_file and get_statistics.                                   *)
(*                                                                         *)
(* The state is a snapshot of the files under ~/.claude (fs) and the value *)
(* returned by the last request (ret).  The environment appends lines and  *)
(* creates files; every request is one action that evaluates the whole     *)
(* handler on the snapshot.                                                *)
(*                                                                         *)
(* Python values are tagged records.  A str is a sequence of characters,   *)
(* each character a one-element token ("a", " ", "\n", "U+1F527", ...), so *)
(* that slicing, joining, stripping and comparing are computed.            *)
(***************************************************************************)
EXTENDS Integers, Sequences, FiniteSets, TLC

VARIABLES fs, ret

vars == <<fs, ret>>

(***************************************************************************)
(* Python values                                                           *)
(***************************************************************************)
PyStr(s) == [k |-> "str", s |-> s]

\* An int n is kept as n = q * 1000 + r with 0 <= r < 1000: epoch
\* milliseconds do not fit in 32 bits.
PyNum(q, r) == [k |-> "num", q |-> q, r |-> r]

PyNone == [k |-> "None"]

PyList(xs) == [k |-> "list", items |-> xs]

\* A dict is a function from the keys that are present to their values.
PyDict(f) == [k |-> "dict", d |-> f]

EmptyDict == PyDict([key \in {} |-> PyNone])

\* The outcome of a call that raised instead of returning.
Raise(exc) == [k |-> "raise", exc |-> exc]

\* dict.get(key, default)
get(d, key, default) == IF key \in DOMAIN d.d THEN d.d[key] ELSE default

\* bool(v)
Truthy(v) ==
  CASE v.k = "str" -> v.s # <<>>
    [] v.k = "num" -> v.q # 0 \/ v.r # 0
    [] v.k = "None" -> FALSE
    [] v.k = "list" -> v.items # <<>>
    [] v.k = "dict" -> DOMAIN v.d # {}
    [] OTHER -> TRUE

\* String literals of the source, as character sequences.
S_user == <<"u", "s", "e", "r">>

S_assistant == <<"a", "s", "s", "i", "s", "t", "a", "n", "t">>

S_text == <<"t", "e", "x", "t">>

S_thinking == <<"t", "h", "i", "n", "k", "i", "n", "g">>

S_tool_use == <<"t", "o", "o", "l", "_", "u", "s", "e">>

S_tool_result == <<"t", "o", "o", "l", "_", "r", "e", "s", "u", "l", "t">>

S_unknown == <<"u", "n", "k", "n", "o", "w", "n">>

\* The label of a thinking block, "<U+1F4AD> <U+601D><U+8003><U+8FC7><U+7A0B>:\n".
THINKING_LABEL == <<"U+1F4AD", " ", "U+601D", "U+8003", "U+8FC7", "U+7A0B", ":", "\n">>

\* The label of a tool result, "<U+1F4CB> <U+5DE5><U+5177><U+7ED3><U+679C>:\n".
RESULT_LABEL == <<"U+1F4CB", " ", "U+5DE5", "U+5177", "U+7ED3", "U+679C", ":", "\n">>

\* The opening of a tool summary, "<U+1F527> [".
TOOL_OPEN == <<"U+1F527", " ", "[">>

ELLIPSIS == <<".", ".", ".">>

\* Characters str.strip() removes.
Whitespace == {" ", "\n", "\t", "\r"}

\* s[:n]
Prefix(s, n) == SubSeq(s, 1, IF Len(s) < n THEN Len(s) ELSE n)

RECURSIVE lstrip(_)
lstrip(s) == IF s # <<>> /\ Head(s) \in Whitespace THEN lstrip(Tail(s)) ELSE s

RECURSIVE rstrip(_)
rstrip(s) ==
  IF s # <<>> /\ s[Len(s)] \in Whitespace THEN rstrip(SubSeq(s, 1, Len(s) - 1)) ELSE s

\* str.strip()
strip(s) == rstrip(lstrip(s))

\* What an f-string puts for {v}: a str is itself; the text of any other
\* value is kept as one opaque token.
py_format(v) == IF v.k = "str" THEN v.s ELSE <<"repr">>

(***************************************************************************)
(* Record Decoder: json.loads(line.strip())                                *)
(* A line of a file is [ok |-> FALSE] when decoding raises JSONDecodeError *)
(* and [ok |-> TRUE, v |-> value] when it decodes to value.                *)
(***************************************************************************)
Malformed == [ok |-> FALSE]

Valid(v) == [ok |-> TRUE, v |-> v]

json_loads(line) == IF line.ok THEN line.v ELSE Raise("JSONDecodeError")

\* What the `except json.JSONDecodeError` clause of every scan does.
OnDecodeErrorBreak == "break"

OnDecodeError == "continue"

(***************************************************************************)
(* Content Normalizer (get_session_messages, the list branch)              *)
(***************************************************************************)
COMMAND_LIMIT == 100

RESULT_LIMIT == 500

\* v[:n] for a value that can be sliced; TypeError otherwise.
py_slice(v, n) ==
  CASE v.k = "str" -> PyStr(Prefix(v.s, n))
    [] v.k = "list" -> PyList(Prefix(v.items, n))
    [] OTHER -> Raise("TypeError")

\* len(v); -1 stands for the TypeError of a value without a length.
py_len(v) ==
  CASE v.k = "str" -> Len(v.s)
    [] v.k = "list" -> Len(v.items)
    [] v.k = "dict" -> Cardinality(DOMAIN v.d)
    [] OTHER -> -1

\* f": {v}", or the exception that computing v raised
desc_of(v) == IF v.k = "raise" THEN v ELSE PyStr(<<":", " ">> \o py_format(v))

\* The detail suffix of a tool summary: the first key of command, file_path,
\* pattern that tool_input holds decides it.
ToolDescFilePathFirst(tool_input) ==
  IF tool_input.k # "dict" THEN PyStr(<<>>)
  ELSE IF "file_path" \in DOMAIN tool_input.d
    THEN desc_of(get(tool_input, "file_path", PyStr(<<>>)))
  ELSE IF "command" \in DOMAIN tool_input.d
    THEN desc_of(py_slice(get(tool_input, "command", PyStr(<<>>)), COMMAND_LIMIT))
  ELSE IF "pattern" \in DOMAIN tool_input.d
    THEN desc_of(get(tool_input, "pattern", PyStr(<<>>)))
  ELSE PyStr(<<>>)

tool_desc(tool_input) ==
  IF tool_input.k # "dict" THEN PyStr(<<>>)
  ELSE IF "command" \in DOMAIN tool_input.d
    THEN desc_of(py_slice(get(tool_input, "command", PyStr(<<>>)), COMMAND_LIMIT))
  ELSE IF "file_path" \in DOMAIN tool_input.d
    THEN desc_of(get(tool_input, "file_path", PyStr(<<>>)))
  ELSE IF "pattern" \in DOMAIN tool_input.d
    THEN desc_of(get(tool_input, "pattern", PyStr(<<>>)))
  ELSE PyStr(<<>>)

\* The truncation of a long tool result that keeps its end.
TruncateResultKeepTail(result_content) ==
  IF py_len(result_content) = -1 THEN Raise("TypeError")
  ELSE IF py_len(result_content) > RESULT_LIMIT
    THEN IF result_content.k = "str"
           THEN PyStr(SubSeq(result_content.s,
                             Len(result_content.s) - RESULT_LIMIT + 1,
                             Len(result_content.s)) \o ELLIPSIS)
           ELSE Raise("TypeError")
  ELSE result_content

\* if len(result_content) > 500: result_content[:500] + "..."
truncate_result(result_content) ==
  IF py_len(result_content) = -1 THEN Raise("TypeError")
  ELSE IF py_len(result_content) > RESULT_LIMIT
    THEN IF result_content.k = "str"
           THEN PyStr(Prefix(result_content.s, RESULT_LIMIT) \o ELLIPSIS)
           ELSE Raise("TypeError")
  ELSE result_content

\* What one item of a content list appends to text_parts: no or one value
\* (k = "parts"), or the exception it raises.
Parts(xs) == [k |-> "parts", parts |-> xs]

thinking_part(thinking_text) ==
  IF Truthy(thinking_text)
    THEN Parts(<<PyStr(THINKING_LABEL \o py_format(thinking_text))>>)
    ELSE Parts(<<>>)

tool_use_part(tool_name, desc) ==
  IF desc.k = "raise" THEN desc
  ELSE Parts(<<PyStr(TOOL_OPEN \o py_format(tool_name) \o desc.s \o <<"]">>)>>)

labelled_result(t) ==
  IF t.k = "raise" THEN t ELSE Parts(<<PyStr(RESULT_LABEL \o py_format(t))>>)

tool_result_part(result_content) ==
  IF Truthy(result_content) THEN labelled_result(truncate_result(result_content))
  ELSE Parts(<<>>)

dict_item_parts(item, item_type) ==
  CASE item_type = PyStr(S_text) -> Parts(<<get(item, "text", PyStr(<<>>))>>)
    [] item_type = PyStr(S_thinking) ->
         thinking_part(get(item, "thinking", PyStr(<<>>)))
    [] item_type = PyStr(S_tool_use) ->
         tool_use_part(get(item, "name", PyStr(S_unknown)),
                       tool_desc(get(item, "input", EmptyDict)))
    [] item_type = PyStr(S_tool_result) ->
         tool_result_part(get(item, "content", PyStr(<<>>)))
    [] OTHER -> Parts(<<>>)

item_parts(item) ==
  IF item.k = "dict" THEN dict_item_parts(item, get(item, "type", PyStr(<<>>)))
  ELSE IF item.k = "str" THEN Parts(<<item>>)
  ELSE Parts(<<>>)

\* text_parts after one more item: the parts so far, or the first exception.
more_parts(p, rest) ==
  IF p.k = "raise" THEN p
  ELSE IF rest.k = "raise" THEN rest
  ELSE Parts(p.parts \o rest.parts)

\* The loop over content.
RECURSIVE text_parts(_)
text_parts(items) ==
  IF items = <<>> THEN Parts(<<>>)
  ELSE more_parts(item_parts(Head(items)), text_parts(Tail(items)))

RECURSIVE join_lines(_)
join_lines(strs) ==
  IF Len(strs) = 1 THEN strs[1].s
  ELSE strs[1].s \o <<"\n">> \o join_lines(Tail(strs))

\* "\n".join(kept): TypeError when an item is not a str
join_kept(kept) ==
  IF \E i \in 1..Len(kept) : kept[i].k # "str" THEN Raise("TypeError")
  ELSE IF kept = <<>> THEN PyStr(<<>>)
  ELSE PyStr(join_lines(kept))

\* The join that keeps the empty parts.
JoinEveryPart(parts) == join_kept(parts)

\* "\n".join(filter(None, text_parts))
join_nonempty(parts) == join_kept(SelectSeq(parts, Truthy))

join_parts(tp) == IF tp.k = "raise" THEN tp ELSE join_nonempty(tp.parts)

\* if isinstance(content, list): content = "\n".join(...)
join_content(content) ==
  IF content.k = "list" THEN join_parts(text_parts(content.items)) ELSE content

\* The fallback for content that is still empty.
fallback(message, content) ==
  IF content.k = "raise" THEN content
  ELSE IF ~Truthy(content)
          /\ get(message, "role", PyNone) = PyStr(S_user)
          /\ get(message, "content", PyNone).k = "str"
    THEN get(message, "content", PyStr(<<>>))
    ELSE content

\* The content of a message after the list branch and the fallback.
normalize(message) == fallback(message, join_content(get(message, "content", PyStr(<<>>))))

(***************************************************************************)
(* The files.  fs.projects is PROJECTS_DIR in enumeration order: each      *)
(* entry has an id (its name), is_dir, and its files in glob order, each   *)
(* with a stem, jsonl (the name ends in .jsonl) and its lines.             *)
(* fs.history is the lines of HISTORY_FILE, fs.tz the local zone's offset  *)
(* from UTC in seconds.  The display name and path of a project are not    *)
(* modelled.                                                               *)
(***************************************************************************)
Ok(v) == [k |-> "ok", v |-> v]

IsJsonl(file) == file.jsonl

\* project_dir.glob("*.jsonl")
glob_jsonl(files) == SelectSeq(files, IsJsonl)

\* PROJECTS_DIR / project_id: the entries with that name (none or one).
project_dir(f, project_id) ==
  {i \in 1..Len(f.projects) : f.projects[i].id = project_id}

(***************************************************************************)
(* sorted(xs, key=..., reverse=True): a stable sort.  The elements come    *)
(* with their keys, as [key |-> k, x |-> element]; elements with equal     *)
(* keys keep their order.                                                  *)
(***************************************************************************)
\* The characters of timestamps and dates, in code point order.
CharOrder ==
  <<"-", ".", "0", "1", "2", "3", "4", "5", "6", "7", "8", "9", ":", "T", "Z">>

Ord(c) == CHOOSE i \in 1..Len(CharOrder) : CharOrder[i] = c

\* a < b for two str
RECURSIVE str_lt(_, _)
str_lt(a, b) ==
  IF b = <<>> THEN FALSE
  ELSE IF a = <<>> THEN TRUE
  ELSE IF Head(a) = Head(b) THEN str_lt(Tail(a), Tail(b))
  ELSE Ord(Head(a)) < Ord(Head(b))

\* a < b for two int
num_lt(a, b) == a.q < b.q \/ (a.q = b.q /\ a.r < b.r)

\* a < b for two sort keys of one type
py_lt(a, b) == IF a.k = "str" THEN str_lt(a.s, b.s) ELSE num_lt(a, b)

\* e goes after the elements whose key is not less than its key.
insert_reverse(done, e) ==
  LET n == Cardinality({j \in 1..Len(done) : ~py_lt(done[j].key, e.key)})
  IN  SubSeq(done, 1, n) \o <<e>> \o SubSeq(done, n + 1, Len(done))

\* e goes before the elements whose key is not greater than its key: equal
\* elements end up in reverse order.
insert_before_equal(done, e) ==
  LET n == Cardinality({j \in 1..Len(done) : py_lt(e.key, done[j].key)})
  IN  SubSeq(done, 1, n) \o <<e>> \o SubSeq(done, n + 1, Len(done))

RECURSIVE sort_keyed_ties_reversed(_)
sort_keyed_ties_reversed(keyed) ==
  IF keyed = <<>> THEN <<>>
  ELSE insert_before_equal(sort_keyed_ties_reversed(SubSeq(keyed, 1, Len(keyed) - 1)),
                           keyed[Len(keyed)])

RECURSIVE sort_keyed(_)
sort_keyed(keyed) ==
  IF keyed = <<>> THEN <<>>
  ELSE insert_reverse(sort_keyed(SubSeq(keyed, 1, Len(keyed) - 1)), keyed[Len(keyed)])

Elements(keyed) == [i \in 1..Len(keyed) |-> keyed[i].x]

SortedReverseTiesReversed(keyed) == Elements(sort_keyed_ties_reversed(keyed))

sorted_reverse(keyed) == Elements(sort_keyed(keyed))

Reverse(xs) == [i \in 1..Len(xs) |-> xs[Len(xs) + 1 - i]]

\* Sorting raises TypeError when two keys of different types, or of a type
\* without an order, are compared.
Sortable(keys) ==
  \/ Len(keys) < 2
  \/ \A i \in 1..Len(keys) : keys[i].k = "str"
  \/ \A i \in 1..Len(keys) : keys[i].k = "num"

(***************************************************************************)
(* get_all_projects                                                        *)
(***************************************************************************)
IsDir(entry) == entry.is_dir

project_entry(dir) ==
  [id |-> dir.id, session_count |-> Len(glob_jsonl(dir.files))]

\* The projects list before it is sorted, in enumeration order.
project_entries(dirs) ==
  LET kept == SelectSeq(dirs, IsDir)
  IN  [i \in 1..Len(kept) |-> project_entry(kept[i])]

by_session_count(projects) ==
  [i \in 1..Len(projects) |->
     [key |-> PyNum(0, projects[i].session_count), x |-> projects[i]]]

get_all_projects(f) == sorted_reverse(by_session_count(project_entries(f.projects)))

(***************************************************************************)
(* get_project_sessions                                                    *)
(***************************************************************************)
IsMessageType(t) == t \in {PyStr(S_user), PyStr(S_assistant)}

\* The tracking that takes the timestamp of every counted record, present
\* or not.
TrackTimestampsUnguarded(acc, ts) ==
  [acc EXCEPT
     !.first_timestamp = IF acc.message_count = 1 THEN ts ELSE @,
     !.last_timestamp = ts]

\* if ts: first_timestamp is set once, last_timestamp every time.
track_timestamps(acc, ts) ==
  IF Truthy(ts)
    THEN [acc EXCEPT
            !.first_timestamp = IF acc.first_timestamp = PyNone THEN ts ELSE @,
            !.last_timestamp = ts]
    ELSE acc

\* One decoded record of the scan: acc afterwards, or the exception.
session_record(data, acc) ==
  IF data.k # "dict" THEN Raise("AttributeError")
  ELSE IF IsMessageType(get(data, "type", PyNone))
    THEN Ok(track_timestamps([acc EXCEPT !.message_count = @ + 1],
                             get(data, "timestamp", PyNone)))
  ELSE Ok(acc)

\* The loop over the lines of one session file.
RECURSIVE scan_session(_, _)
session_step(data, lines, acc) ==
  IF data.k = "raise"
    THEN IF OnDecodeError = "continue" THEN scan_session(lines, Ok(acc)) ELSE Ok(acc)
    ELSE scan_session(lines, session_record(data, acc))

scan_session(lines, acc) ==
  IF acc.k = "raise" \/ lines = <<>> THEN acc
  ELSE session_step(json_loads(Head(lines)), Tail(lines), acc.v)

session_of(file, r) ==
  IF r.k = "raise" THEN r
  ELSE Ok([id |-> file.stem,
           message_count |-> r.v.message_count,
           first_timestamp |-> r.v.first_timestamp,
           last_timestamp |-> r.v.last_timestamp])

session_entry(file) ==
  session_of(file,
    scan_session(file.lines,
      Ok([message_count |-> 0, first_timestamp |-> PyNone, last_timestamp |-> PyNone])))

more_sessions(e, rest) ==
  IF e.k = "raise" THEN e
  ELSE IF rest.k = "raise" THEN rest
  ELSE Ok(<<e.v>> \o rest.v)

\* The loop over the session files of the project.
RECURSIVE session_entries(_)
session_entries(files) ==
  IF files = <<>> THEN Ok(<<>>)
  ELSE more_sessions(session_entry(Head(files)), session_entries(Tail(files)))

\* x.get("last_timestamp") or ""
session_key(x) == IF Truthy(x.last_timestamp) THEN x.last_timestamp ELSE PyStr(<<>>)

by_last_timestamp(sessions) ==
  [i \in 1..Len(sessions) |-> [key |-> session_key(sessions[i]), x |-> sessions[i]]]

\* The sort without reverse=True: the oldest session first.
SortSessionsAscending(sessions) ==
  IF sessions.k = "raise" THEN sessions
  ELSE IF ~Sortable([i \in 1..Len(sessions.v) |-> session_key(sessions.v[i])])
    THEN Raise("TypeError")
  ELSE Ok(Reverse(sorted_reverse(by_last_timestamp(sessions.v))))

\* sessions.sort(key=lambda x: x.get("last_timestamp") or "", reverse=True)
sort_sessions(sessions) ==
  IF sessions.k = "raise" THEN sessions
  ELSE IF ~Sortable([i \in 1..Len(sessions.v) |-> session_key(sessions.v[i])])
    THEN Raise("TypeError")
  ELSE Ok(sorted_reverse(by_last_timestamp(sessions.v)))

get_project_sessions(f, project_id) ==
  IF project_dir(f, project_id) = {} THEN Ok(<<>>)
  ELSE sort_sessions(session_entries(glob_jsonl(
         f.projects[CHOOSE i \in project_dir(f, project_id) : TRUE].files)))

(***************************************************************************)
(* get_session_messages                                                    *)
(***************************************************************************)
\* The guard without the strip() test: blank content is let through.
DropOnlyFalsyContent(content) == ~Truthy(content)

\* if not content or not content.strip(): continue
is_empty_content(content) == ~Truthy(content) \/ strip(content.s) = <<>>

emit_message(data, message, content) ==
  IF content.k = "raise" THEN content
  ELSE IF Truthy(content) /\ content.k # "str" THEN Raise("AttributeError")
  ELSE IF is_empty_content(content) THEN [k |-> "skip"]
  ELSE [k |-> "emit",
        m |-> [type |-> get(data, "type", PyNone),
               content |-> content,
               timestamp |-> get(data, "timestamp", PyNone),
               uuid |-> get(data, "uuid", PyNone),
               cwd |-> get(data, "cwd", PyStr(<<>>)),
               model |-> get(message, "model", PyStr(<<>>))]]

message_of(data, message) ==
  IF message.k # "dict" THEN Raise("AttributeError")
  ELSE emit_message(data, message, normalize(message))

record_message(data) ==
  IF data.k = "raise" THEN [k |-> "decode_error"]
  ELSE IF data.k # "dict" THEN Raise("AttributeError")
  ELSE IF ~IsMessageType(get(data, "type", PyNone)) THEN [k |-> "skip"]
  ELSE message_of(data, get(data, "message", EmptyDict))

\* One line: decode_error, skip, emit a message, or raise.
line_message(line) == record_message(json_loads(line))

more_messages(m, rest) == IF rest.k = "raise" THEN rest ELSE Ok(<<m>> \o rest.v)

\* The loop over the lines of the session file.
RECURSIVE scan_messages(_)
message_step(r, lines) ==
  IF r.k = "raise" THEN r
  ELSE IF r.k = "decode_error"
    THEN IF OnDecodeError = "continue" THEN scan_messages(lines) ELSE Ok(<<>>)
  ELSE IF r.k = "skip" THEN scan_messages(lines)
  ELSE more_messages(r.m, scan_messages(lines))

scan_messages(lines) ==
  IF lines = <<>> THEN Ok(<<>>)
  ELSE message_step(line_message(Head(lines)), Tail(lines))

\* The files PROJECTS_DIR / project_id / (session_id + ".jsonl") names.
session_file(f, project_id, session_id) ==
  IF project_dir(f, project_id) = {} THEN {}
  ELSE LET dir == f.projects[CHOOSE i \in project_dir(f, project_id) : TRUE]
       IN  {i \in 1..Len(dir.files) : dir.files[i].jsonl /\ dir.files[i].stem = session_id}

get_session_messages(f, project_id, session_id) ==
  IF session_file(f, project_id, session_id) = {} THEN Ok(<<>>)
  ELSE scan_messages(
         f.projects[CHOOSE i \in project_dir(f, project_id) : TRUE]
          .files[CHOOSE i \in session_file(f, project_id, session_id) : TRUE].lines)

(***************************************************************************)
(* read_history_file and get_statistics                                    *)
(* A dict that is counted into is a sequence of <<key, count>> pairs in    *)
(* insertion order.                                                        *)
(***************************************************************************)
DAILY_KEEP == 30

TOOL_KEEP == 20

PROJECTS_KEEP == 10

RECURSIVE read_history_file(_)
history_step(data, lines) ==
  IF data.k = "raise"
    THEN IF OnDecodeError = "continue" THEN read_history_file(lines) ELSE <<>>
    ELSE <<data>> \o read_history_file(lines)

read_history_file(lines) ==
  IF lines = <<>> THEN <<>> ELSE history_step(json_loads(Head(lines)), Tail(lines))

\* d[key] += 1 on a defaultdict(int)
increment(d, key) ==
  IF \E i \in 1..Len(d) : d[i][1] = key
    THEN [i \in 1..Len(d) |-> IF d[i][1] = key THEN <<key, d[i][2] + 1>> ELSE d[i]]
    ELSE Append(d, <<key, 1>>)

\* A list or a dict cannot be a key.
Hashable(v) == v.k \notin {"list", "dict"}

\* xs[-n:]
Suffix(xs, n) == SubSeq(xs, IF Len(xs) > n THEN Len(xs) - n + 1 ELSE 1, Len(xs))

\* The civil date of a day number (days since 1970-01-01), as datetime
\* computes it in the proleptic Gregorian calendar.
civil_from_days(days) ==
  LET z == days + 719468
      era == z \div 146097
      doe == z - era * 146097
      yoe == (doe - doe \div 1460 + doe \div 36524 - doe \div 146096) \div 365
      doy == doe - (365 * yoe + yoe \div 4 - yoe \div 100)
      mp == (5 * doy + 2) \div 153
      d == doy - (153 * mp + 2) \div 5 + 1
      m == IF mp < 10 THEN mp + 3 ELSE mp - 9
      y == yoe + era * 400 + (IF m <= 2 THEN 1 ELSE 0)
  IN  [year |-> y, month |-> m, day |-> d]

DigitChar(n) == CharOrder[n + 3]

\* dt.strftime("%Y-%m-%d") for a year of four digits
strftime_ymd(date) ==
  <<DigitChar(date.year \div 1000), DigitChar((date.year \div 100) % 10),
    DigitChar((date.year \div 10) % 10), DigitChar(date.year % 10), "-",
    DigitChar(date.month \div 10), DigitChar(date.month % 10), "-",
    DigitChar(date.day \div 10), DigitChar(date.day % 10)>>

\* datetime.fromtimestamp(ts / 1000) in the local zone: its date and hour.
fromtimestamp(ts, tz) ==
  [date |-> civil_from_days((ts.q + tz) \div 86400),
   hour |-> ((ts.q + tz) % 86400) \div 3600]

\* if ts:
has_timestamp(ts) == Truthy(ts)

count_activity(acc, dt) ==
  Ok([daily_activity |-> increment(acc.daily_activity, strftime_ymd(dt.date)),
      hourly_activity |-> increment(acc.hourly_activity, dt.hour)])

history_timestamp(ts, tz, acc) ==
  IF ~has_timestamp(ts) THEN Ok(acc)
  ELSE IF ts.k # "num" THEN Raise("TypeError")
  ELSE count_activity(acc, fromtimestamp(ts, tz))

history_entry(entry, tz, acc) ==
  IF entry.k # "dict" THEN Raise("AttributeError")
  ELSE history_timestamp(get(entry, "timestamp", PyNone), tz, acc)

\* The loop over the history entries.
RECURSIVE history_activity(_, _, _)
history_activity(history, tz, acc) ==
  IF acc.k = "raise" \/ history = <<>> THEN acc
  ELSE history_activity(Tail(history), tz, history_entry(Head(history), tz, acc.v))

count_tool(item, tool_name, tool_usage) ==
  IF ~Hashable(tool_name) THEN Raise("TypeError")
  ELSE Ok(increment(tool_usage, tool_name))

tool_item(item, tool_usage) ==
  IF item.k = "dict" /\ get(item, "type", PyNone) = PyStr(S_tool_use)
    THEN count_tool(item, get(item, "name", PyStr(S_unknown)), tool_usage)
    ELSE Ok(tool_usage)

\* The loop over the items of one content list.
RECURSIVE count_tools(_, _)
count_tools(items, tool_usage) ==
  IF tool_usage.k = "raise" \/ items = <<>> THEN tool_usage
  ELSE count_tools(Tail(items), tool_item(Head(items), tool_usage.v))

with_tools(acc, t) == IF t.k = "raise" THEN t ELSE Ok([acc EXCEPT !.tool_usage = t.v])

count_content(content, acc) ==
  IF content.k # "list" THEN Ok(acc)
  ELSE with_tools(acc, count_tools(content.items, Ok(acc.tool_usage)))

count_model(msg, model, acc) ==
  IF ~Truthy(model) THEN count_content(get(msg, "content", PyList(<<>>)), acc)
  ELSE IF ~Hashable(model) THEN Raise("TypeError")
  ELSE count_content(get(msg, "content", PyList(<<>>)),
                     [acc EXCEPT !.model_usage = increment(@, model)])

count_message(msg, acc) ==
  IF msg.k # "dict" THEN Ok(acc) ELSE count_model(msg, get(msg, "model", PyNone), acc)

\* The count that takes a record of any type for a message.
CountRecordOfAnyType(data, acc) ==
  IF data.k # "dict" THEN Raise("AttributeError")
  ELSE count_message(get(data, "message", EmptyDict),
         [acc EXCEPT !.project_messages = @ + 1, !.total_messages = @ + 1])

\* One decoded record of a session file.
count_record(data, acc) ==
  IF data.k # "dict" THEN Raise("AttributeError")
  ELSE count_message(get(data, "message", EmptyDict),
         IF IsMessageType(get(data, "type", PyNone))
           THEN [acc EXCEPT !.project_messages = @ + 1, !.total_messages = @ + 1]
           ELSE acc)

RECURSIVE count_lines(_, _)
count_step(data, lines, acc) ==
  IF data.k = "raise"
    THEN IF OnDecodeError = "continue" THEN count_lines(lines, Ok(acc)) ELSE Ok(acc)
    ELSE count_lines(lines, count_record(data, acc))

count_lines(lines, acc) ==
  IF acc.k = "raise" \/ lines = <<>> THEN acc
  ELSE count_step(json_loads(Head(lines)), Tail(lines), acc.v)

RECURSIVE count_files(_, _)
count_files(files, acc) ==
  IF acc.k = "raise" \/ files = <<>> THEN acc
  ELSE count_files(Tail(files), count_lines(Head(files).lines, acc))

project_counted(project, r) ==
  IF r.k = "raise" THEN r
  ELSE Ok([r.v EXCEPT !.projects_by_activity =
             Append(@, [id |-> project.id, messages |-> r.v.project_messages])])

count_project(project, session_files, acc) ==
  project_counted(project,
    count_files(session_files,
      Ok([acc EXCEPT !.total_sessions = @ + Len(session_files),
                     !.project_messages = 0])))

\* The loop over the projects.
RECURSIVE count_projects(_, _, _)
count_projects(f, projects, acc) ==
  IF acc.k = "raise" \/ projects = <<>> THEN acc
  ELSE count_projects(f, Tail(projects),
         count_project(Head(projects),
           glob_jsonl(f.projects[CHOOSE i \in project_dir(f, Head(projects).id) : TRUE].files),
           acc.v))

by_messages(projects) ==
  [i \in 1..Len(projects) |-> [key |-> PyNum(0, projects[i].messages), x |-> projects[i]]]

\* The items of a counted dict, keyed by their key (a str or an hour).
by_date(items) == [i \in 1..Len(items) |-> [key |-> PyStr(items[i][1]), x |-> items[i]]]

by_hour(items) == [i \in 1..Len(items) |-> [key |-> PyNum(0, items[i][1]), x |-> items[i]]]

by_count(items) == [i \in 1..Len(items) |-> [key |-> PyNum(0, items[i][2]), x |-> items[i]]]

\* sorted(...)[-30:]
keep_recent_days(items) == Suffix(items, DAILY_KEEP)

\* The cut that keeps the tools the sort put last.
KeepLeastUsedTools(items) == Suffix(items, TOOL_KEEP)

\* sorted(...)[:20]
keep_top_tools(items) == Prefix(items, TOOL_KEEP)

\* sorted(d.items()) of a dict: ascending by key; the keys are distinct, so
\* it is the descending order read backwards.
sorted_items(keyed) == Reverse(sorted_reverse(keyed))

\* The post-processing of the counts.
statistics(history, activity, projects, counts) ==
  IF activity.k = "raise" THEN activity
  ELSE IF counts.k = "raise" THEN counts
  ELSE Ok([total_projects |-> Len(projects),
           total_sessions |-> counts.v.total_sessions,
           total_messages |-> counts.v.total_messages,
           total_history_entries |-> Len(history),
           projects_by_activity |->
             Prefix(sorted_reverse(by_messages(counts.v.projects_by_activity)),
                    PROJECTS_KEEP),
           daily_activity |->
             keep_recent_days(sorted_items(by_date(activity.v.daily_activity))),
           hourly_activity |-> sorted_items(by_hour(activity.v.hourly_activity)),
           model_usage |-> counts.v.model_usage,
           tool_usage |-> keep_top_tools(sorted_reverse(by_count(counts.v.tool_usage)))])

statistics_of(f, history, projects) ==
  statistics(history,
    history_activity(history, f.tz,
      Ok([daily_activity |-> <<>>, hourly_activity |-> <<>>])),
    projects,
    count_projects(f, projects,
      Ok([total_sessions |-> 0, total_messages |-> 0, project_messages |-> 0,
          projects_by_activity |-> <<>>, model_usage |-> <<>>, tool_usage |-> <<>>])))

get_statistics(f) == statistics_of(f, read_history_file(f.history), get_all_projects(f))

(***************************************************************************)
(* Requests and the environment                                            *)
(***************************************************************************)
NoRet == [op |-> "none"]

\* A line is appended to a session file.
AppendLine(i, j, line) ==
  /\ fs' = [fs EXCEPT !.projects[i].files[j].lines = Append(@, line)]
  /\ ret' = NoRet

\* A line is appended to the history file.
AppendHistory(line) ==
  /\ fs' = [fs EXCEPT !.history = Append(@, line)]
  /\ ret' = NoRet

\* A file appears in a project directory.
CreateFile(i, file) ==
  /\ fs' = [fs EXCEPT !.projects[i].files = Append(@, file)]
  /\ ret' = NoRet

\* An entry appears in the projects directory.
CreateEntry(entry) ==
  /\ fs' = [fs EXCEPT !.projects = Append(@, entry)]
  /\ ret' = NoRet

ListProjects ==
  /\ ret' = [op |-> "get_all_projects", value |-> Ok(get_all_projects(fs))]
  /\ UNCHANGED fs

ListSessions(project_id) ==
  /\ ret' = [op |-> "get_project_sessions", project_id |-> project_id,
             value |-> get_project_sessions(fs, project_id)]
  /\ UNCHANGED fs

ReadMessages(project_id, session_id) ==
  /\ ret' = [op |-> "get_session_messages", project_id |-> project_id,
             session_id |-> session_id,
             value |-> get_session_messages(fs, project_id, session_id)]
  /\ UNCHANGED fs

ComputeStatistics ==
  /\ ret' = [op |-> "get_statistics", value |-> get_statistics(fs)]
  /\ UNCHANGED fs

SessionFile(stem, lines) == [stem |-> stem, jsonl |-> TRUE, lines |-> lines]

ProjectDir(id, files) == [id |-> id, is_dir |-> TRUE, files |-> files]

\* One project p1 holding one session file s1 with the given lines.
OneSession(lines) ==
  [projects |-> <<ProjectDir("p1", <<SessionFile("s1", lines)>>)>>,
   history |-> <<>>, tz |-> 0]

\* The lines of that session file.
TheLines == fs.projects[1].files[1].lines

(***************************************************************************)
(* Session logs of user and assistant records (C1, C2)                     *)
(***************************************************************************)
TextItem(s) == PyDict([type |-> PyStr(S_text), text |-> PyStr(s)])

ThinkingItem(s) == PyDict([type |-> PyStr(S_thinking), thinking |-> PyStr(s)])

UserRecord(content) ==
  PyDict([type |-> PyStr(S_user),
          message |-> PyDict([role |-> PyStr(S_user), content |-> content])])

AssistantRecord(content) ==
  PyDict([type |-> PyStr(S_assistant),
          message |-> PyDict([role |-> PyStr(S_assistant),
                              model |-> PyStr(<<"m">>), content |-> content])])

\* The lines a session log is made of: malformed ones, user and assistant
\* records with plain, list-shaped, blank, empty and missing content, and
\* records of another type.
MessageLines ==
  {Malformed}
  \cup {Valid(UserRecord(c)) :
          c \in {PyStr(<<>>), PyStr(<<" ", "\n">>), PyStr(<<"a">>), PyNone,
                 PyList(<<TextItem(<<"b">>), TextItem(<<>>), PyStr(<<"c">>)>>)}}
  \cup {Valid(AssistantRecord(c)) :
          c \in {PyStr(<<" ", "d", " ">>), PyList(<<>>),
                 PyList(<<ThinkingItem(<<>>), TextItem(<<" ">>)>>),
                 PyList(<<ThinkingItem(<<"e">>)>>)}}
  \cup {Valid(PyDict([type |-> PyStr(S_user)])),
        Valid(PyDict([type |-> PyStr(<<"s", "u", "m", "m", "a", "r", "y">>),
                      message |-> PyDict([content |-> PyStr(<<"f">>)])]))}

MaxLines == 3

InitMessages == fs = OneSession(<<>>) /\ ret = NoRet

NextMessages ==
  \/ \E line \in MessageLines : Len(TheLines) < MaxLines /\ AppendLine(1, 1, line)
  \/ ReadMessages("p1", "s1")
  \/ ListSessions("p1")

SpecMessages == InitMessages /\ [][NextMessages]_vars

IsValidLine(line) == line.ok

\* The snapshot with the malformed lines of the session file removed.
WithoutMalformed ==
  [fs EXCEPT !.projects[1].files[1].lines = SelectSeq(@, IsValidLine)]

\* C1: whatever malformed lines are interleaved with the records of a
\* session log, get_session_messages returns, without raising, exactly the
\* messages it returns for the log with the malformed lines removed, in the
\* same order.
C1_MalformedLinesContributeNothing ==
  ret.op = "get_session_messages" =>
    /\ ret.value.k = "ok"
    /\ ret.value = get_session_messages(WithoutMalformed, "p1", "s1")

\* A malformed line stands between two records that both became messages.
C1_Witness ==
  /\ ret.op = "get_session_messages"
  /\ Len(TheLines) = 3
  /\ TheLines[1].ok /\ ~TheLines[2].ok /\ TheLines[3].ok
  /\ ret.value.k = "ok"
  /\ Len(ret.value.v) = 2
  /\ ret.value.v[1] # ret.value.v[2]

\* The user and assistant records of the session file.
MessageRecords ==
  {i \in 1..Len(TheLines) :
     /\ TheLines[i].ok
     /\ TheLines[i].v.k = "dict"
     /\ IsMessageType(get(TheLines[i].v, "type", PyNone))}

\* The normalized content of record data is empty after trimming.
NormalizedEmpty(data) ==
  LET content == normalize(get(data, "message", EmptyDict))
  IN  ~Truthy(content) \/ strip(content.s) = <<>>

EmptyRecords == {i \in MessageRecords : NormalizedEmpty(TheLines[i].v)}

\* C2: every message get_session_messages returns has content that is not
\* empty after trimming, and their number is the message_count that
\* get_project_sessions reports for the same file minus the number of user
\* and assistant records whose normalized content is empty.
C2_EmptyContentDroppedButCounted ==
  ret.op = "get_session_messages" =>
    /\ ret.value.k = "ok"
    /\ \A i \in 1..Len(ret.value.v) :
         /\ ret.value.v[i].content.k = "str"
         /\ strip(ret.value.v[i].content.s) # <<>>
    /\ get_project_sessions(fs, "p1").v[1].message_count = Cardinality(MessageRecords)
    /\ Len(ret.value.v) =
         get_project_sessions(fs, "p1").v[1].message_count - Cardinality(EmptyRecords)

\* A log with a blank record, an empty record and a record that is shown.
C2_Witness ==
  /\ ret.op = "get_session_messages"
  /\ ret.value.k = "ok"
  /\ Len(ret.value.v) = 1
  /\ Cardinality(EmptyRecords) = 2
  /\ \E i \in EmptyRecords : Truthy(normalize(get(TheLines[i].v, "message", EmptyDict)))

(***************************************************************************)
(* Lines that are valid JSON of any shape (C3)                             *)
(***************************************************************************)
\* Session lines: malformed, values that are not objects, records whose
\* message is not a mapping, whose content is a number, whose text is a
\* number, whose tool name is a list, and an ordinary record.
ShapeLines ==
  {Malformed,
   Valid(PyNum(0, 5)),
   Valid(PyStr(<<"x">>)),
   Valid(PyList(<<>>)),
   Valid(PyDict([type |-> PyStr(S_user), message |-> PyStr(<<"h", "i">>)])),
   Valid(PyDict([type |-> PyStr(S_assistant), message |-> PyNone])),
   Valid(UserRecord(PyNum(0, 7))),
   Valid(UserRecord(PyList(<<PyDict([type |-> PyStr(S_text), text |-> PyNum(0, 1)])>>))),
   Valid(AssistantRecord(PyList(<<PyDict([type |-> PyStr(S_tool_use),
                                          name |-> PyList(<<>>)])>>))),
   Valid(UserRecord(PyStr(<<"a">>)))}

\* History lines: malformed, a number, an entry without a timestamp, with a
\* timestamp in epoch milliseconds, and with a timestamp that is a str.
ShapeHistoryLines ==
  {Malformed,
   Valid(PyNum(0, 3)),
   Valid(PyDict([display |-> PyStr(<<"a">>)])),
   Valid(PyDict([timestamp |-> PyNum(1704067200, 0)])),
   Valid(PyDict([timestamp |-> PyStr(<<"2", "0", "2", "4">>)]))}

MaxShapeLines == 2

InitShapes == fs = OneSession(<<>>) /\ ret = NoRet

NextShapes ==
  \/ \E line \in ShapeLines : Len(TheLines) < MaxShapeLines /\ AppendLine(1, 1, line)
  \/ \E line \in ShapeHistoryLines :
       Len(fs.history) < MaxShapeLines /\ AppendHistory(line)
  \/ ReadMessages("p1", "s1")
  \/ ListSessions("p1")
  \/ ComputeStatistics

SpecShapes == InitShapes /\ [][NextShapes]_vars

\* C3: whatever valid JSON the lines of a session log and of the history
\* feed hold, get_project_sessions, get_session_messages and get_statistics
\* return a result and never raise to the caller.
C3_NoErrorReachesTheCaller == ret.op # "none" => ret.value.k = "ok"

(***************************************************************************)
(* One session file of records with and without timestamps (C4)            *)
(***************************************************************************)
TS_DEC31 == <<"2", "0", "2", "3", "-", "1", "2", "-", "3", "1">>

TS_JAN02 == <<"2", "0", "2", "4", "-", "0", "1", "-", "0", "2">>

TS_JAN10 == <<"2", "0", "2", "4", "-", "0", "1", "-", "1", "0">>

TS_JAN10T08 == <<"2", "0", "2", "4", "-", "0", "1", "-", "1", "0", "T", "0", "8">>

Stamped(type, ts) == PyDict([type |-> PyStr(type), timestamp |-> PyStr(ts)])

S_summary == <<"s", "u", "m", "m", "a", "r", "y">>

TimestampLines ==
  {Malformed,
   Valid(PyDict([type |-> PyStr(S_user)])),
   Valid(Stamped(S_user, TS_JAN02)),
   Valid(Stamped(S_user, TS_DEC31)),
   Valid(Stamped(S_assistant, TS_JAN10)),
   Valid(Stamped(S_assistant, <<>>)),
   Valid(Stamped(S_summary, TS_JAN10T08)),
   Valid(PyDict([timestamp |-> PyStr(TS_JAN10T08)]))}

MaxTimestampLines == 4

InitSessionFile == fs = OneSession(<<>>) /\ ret = NoRet

NextSessionFile ==
  \/ \E line \in TimestampLines :
       Len(TheLines) < MaxTimestampLines /\ AppendLine(1, 1, line)
  \/ ListSessions("p1")

SpecSessionFile == InitSessionFile /\ [][NextSessionFile]_vars

\* The timestamp of line i, None when it has none.
TimestampAt(i) == get(TheLines[i].v, "timestamp", PyNone)

\* The user and assistant records that carry a non-empty timestamp.
StampedRecords == {i \in MessageRecords : Truthy(TimestampAt(i))}

Min(S) == CHOOSE i \in S : \A j \in S : i <= j

Max(S) == CHOOSE i \in S : \A j \in S : i >= j

\* The timestamp of line i as the listing shows one: null when the record
\* has none or an empty one.
ShownTimestampAt(i) == IF Truthy(TimestampAt(i)) THEN TimestampAt(i) ELSE PyNone

\* C4 as stated: first_timestamp and last_timestamp are the timestamps of
\* the first and of the last user or assistant record of the file, and a
\* file without such records has message_count 0 and both timestamps null.
C4_AsStated ==
  ret.op = "get_project_sessions" =>
    /\ ret.value.k = "ok"
    /\ ret.value.v[1].message_count = Cardinality(MessageRecords)
    /\ IF MessageRecords = {}
         THEN /\ ret.value.v[1].first_timestamp = PyNone
              /\ ret.value.v[1].last_timestamp = PyNone
         ELSE /\ ret.value.v[1].first_timestamp = ShownTimestampAt(Min(MessageRecords))
              /\ ret.value.v[1].last_timestamp = ShownTimestampAt(Max(MessageRecords))

\* C4 (amended): message_count is the number of user and assistant records;
\* first_timestamp and last_timestamp are the timestamps of the first and
\* of the last user or assistant record that carries a non-empty timestamp,
\* in file order, and are null when no such record carries one; records of
\* other types and malformed lines affect none of the three.
C4_TimestampsOfStampedRecords ==
  ret.op = "get_project_sessions" =>
    /\ ret.value.k = "ok"
    /\ ret.value.v[1].message_count = Cardinality(MessageRecords)
    /\ IF StampedRecords = {}
         THEN /\ ret.value.v[1].first_timestamp = PyNone
              /\ ret.value.v[1].last_timestamp = PyNone
         ELSE /\ ret.value.v[1].first_timestamp = TimestampAt(Min(StampedRecords))
              /\ ret.value.v[1].last_timestamp = TimestampAt(Max(StampedRecords))

\* The first user record has no timestamp, the later ones have timestamps
\* that go down, and a record of another type ends the file.
C4_Witness ==
  /\ ret.op = "get_project_sessions"
  /\ Len(TheLines) = 4
  /\ MessageRecords = {1, 2, 3}
  /\ StampedRecords = {2, 3}
  /\ TheLines[4].ok /\ Truthy(TimestampAt(4))
  /\ ret.value.v[1].first_timestamp = PyStr(TS_JAN02)
  /\ ret.value.v[1].last_timestamp = PyStr(TS_DEC31)

(***************************************************************************)
(* A project of several session files (C5)                                 *)
(***************************************************************************)
\* The logs a session file is created with: without records, without
\* timestamps, with one timestamp, with several, after a malformed line.
SessionLogs ==
  {<<>>,
   <<Valid(PyDict([type |-> PyStr(S_user)]))>>,
   <<Valid(Stamped(S_user, TS_DEC31))>>,
   <<Valid(Stamped(S_user, TS_JAN10))>>,
   <<Valid(Stamped(S_user, TS_JAN10T08)), Valid(Stamped(S_assistant, TS_JAN02))>>,
   <<Malformed, Valid(Stamped(S_assistant, TS_JAN10T08))>>}

\* The names of the files and directories that are created, in order.
Stems == <<"s1", "s2", "s3", "s4", "s5", "s6", "s7">>

Ids == <<"p1", "p2", "p3", "p4", "p5", "p6", "p7">>

MaxSessions == 3

InitSessions ==
  /\ fs = [projects |-> <<ProjectDir("p1", <<>>)>>, history |-> <<>>, tz |-> 0]
  /\ ret = NoRet

NextSessions ==
  \/ \E lines \in SessionLogs :
       /\ Len(fs.projects[1].files) < MaxSessions
       /\ CreateFile(1, SessionFile(Stems[Len(fs.projects[1].files) + 1], lines))
  \/ /\ Len(fs.projects[1].files) < MaxSessions
     /\ CreateFile(1, [stem |-> Stems[Len(fs.projects[1].files) + 1], jsonl |-> FALSE,
                       lines |-> <<Valid(Stamped(S_user, TS_JAN10))>>])
  \/ ListSessions("p1")
  \/ ListSessions("p2")

SpecSessions == InitSessions /\ [][NextSessions]_vars

\* The session files of project p1.
TheSessionFiles == {i \in 1..Len(fs.projects[1].files) : fs.projects[1].files[i].jsonl}

\* C5: get_project_sessions returns every session file of the project once
\* and nothing else, ordered by last_timestamp descending as strings, a
\* session without a timestamp counting as "" and so coming after every
\* session that has one; a project that does not exist has no sessions.
C5_SessionsByLastTimestampDescending ==
  ret.op = "get_project_sessions" =>
    /\ ret.value.k = "ok"
    /\ ret.project_id = "p2" => ret.value.v = <<>>
    /\ ret.project_id = "p1" =>
         /\ Len(ret.value.v) = Cardinality(TheSessionFiles)
         /\ {ret.value.v[i].id : i \in 1..Len(ret.value.v)}
              = {fs.projects[1].files[i].stem : i \in TheSessionFiles}
         /\ \A i, j \in 1..Len(ret.value.v) :
              i < j => ~str_lt(session_key(ret.value.v[i]).s, session_key(ret.value.v[j]).s)
         /\ \A i, j \in 1..Len(ret.value.v) :
              /\ ret.value.v[i].last_timestamp = PyNone
              /\ ret.value.v[j].last_timestamp # PyNone
              => j < i

\* Three session files, the first without a timestamp, the next two with
\* timestamps that go up: the listing turns their order round.
C5_Witness ==
  /\ ret.op = "get_project_sessions"
  /\ ret.project_id = "p1"
  /\ Len(fs.projects[1].files) = 3
  /\ Len(ret.value.v) = 3
  /\ ret.value.v[1].id = "s3"
  /\ ret.value.v[2].id = "s2"
  /\ ret.value.v[3].id = "s1"
  /\ ret.value.v[3].last_timestamp = PyNone
  /\ ret.value.v[1].last_timestamp # ret.value.v[2].last_timestamp

(***************************************************************************)
(* The projects directory (C6)                                             *)
(***************************************************************************)
\* n session files without lines
EmptySessions(n) == [j \in 1..n |-> SessionFile(Stems[j], <<>>)]

MaxFiles == 5

MaxProjects == 3

InitProjects == fs = [projects |-> <<>>, history |-> <<>>, tz |-> 0] /\ ret = NoRet

NextProjects ==
  \/ \E n \in 0..MaxFiles :
       /\ Len(fs.projects) < MaxProjects
       /\ CreateEntry(ProjectDir(Ids[Len(fs.projects) + 1], EmptySessions(n)))
  \/ /\ Len(fs.projects) < MaxProjects
     /\ CreateEntry(ProjectDir(Ids[Len(fs.projects) + 1],
                      Append(EmptySessions(2),
                             [stem |-> "notes", jsonl |-> FALSE, lines |-> <<>>])))
  \/ /\ Len(fs.projects) < MaxProjects
     /\ CreateEntry([id |-> Ids[Len(fs.projects) + 1], is_dir |-> FALSE, files |-> <<>>])
  \/ ListProjects

SpecProjects == InitProjects /\ [][NextProjects]_vars

\* The subdirectories of the projects directory.
TheDirs == {i \in 1..Len(fs.projects) : fs.projects[i].is_dir}

\* Where the directory named id stands in the enumeration.
EnumerationIndex(id) == CHOOSE i \in 1..Len(fs.projects) : fs.projects[i].id = id

SessionFilesOf(i) ==
  Cardinality({j \in 1..Len(fs.projects[i].files) : fs.projects[i].files[j].jsonl})

\* C6: get_all_projects returns one project per immediate subdirectory of
\* the projects directory, each with the number of its session files,
\* ordered by session_count descending, projects with equal session_count
\* in enumeration order.
C6_ProjectsBySessionCountStable ==
  ret.op = "get_all_projects" =>
    /\ Len(ret.value.v) = Cardinality(TheDirs)
    /\ {ret.value.v[i].id : i \in 1..Len(ret.value.v)} = {fs.projects[i].id : i \in TheDirs}
    /\ \A i \in 1..Len(ret.value.v) :
         ret.value.v[i].session_count = SessionFilesOf(EnumerationIndex(ret.value.v[i].id))
    /\ \A i, j \in 1..Len(ret.value.v) :
         i < j =>
           \/ ret.value.v[i].session_count > ret.value.v[j].session_count
           \/ /\ ret.value.v[i].session_count = ret.value.v[j].session_count
              /\ EnumerationIndex(ret.value.v[i].id) < EnumerationIndex(ret.value.v[j].id)

\* Directories with 2, 5 and 2 session files come out as 5, 2, 2, the two
\* with 2 files in enumeration order.
C6_Witness ==
  /\ ret.op = "get_all_projects"
  /\ Len(fs.projects) = 3
  /\ SessionFilesOf(1) = 2 /\ SessionFilesOf(2) = 5 /\ SessionFilesOf(3) = 2
  /\ TheDirs = {1, 2, 3}
  /\ ret.value.v = <<[id |-> "p2", session_count |-> 5],
                     [id |-> "p1", session_count |-> 2],
                     [id |-> "p3", session_count |-> 2]>>

(***************************************************************************)
(* History feeds of many dates and session logs of many tools (C7, C8)     *)
(***************************************************************************)
MaxDates == 40

MaxTools == 22

\* The entry of the d-th date of a feed: three days after the one before,
\* counted from day 19700 after 1970-01-01 (2023-12-09, so that the dates
\* run over the end of a year and of a February), at a time of day that
\* depends on d.
DatedEntry(d) ==
  Valid(PyDict([display |-> PyStr(<<"a">>),
                timestamp |-> PyNum(((19700 + 3 * d) * 86400) + ((d * 7919) % 86400),
                                    (d * 37) % 1000)]))

\* The order in which the dates 1..n appear in the feed.
DateOrder(n, order) ==
  CASE order = "up" -> [i \in 1..n |-> i]
    [] order = "down" -> [i \in 1..n |-> n + 1 - i]
    [] OTHER -> [i \in 1..n |-> IF 2 * i <= n THEN 2 * i ELSE 2 * (n - i) + 1]

\* A feed of n dates: one entry per date in the given order, then a second
\* entry for every third date, then the extra lines.
HistoryFeed(n, order, extra) ==
  [i \in 1..n |-> DatedEntry(DateOrder(n, order)[i])]
  \o [i \in 1..(n \div 3) |-> DatedEntry(3 * i)]
  \o (CASE extra = "epoch" -> <<Valid(PyDict([timestamp |-> PyNum(0, 0)]))>>
        [] extra = "untimed" -> <<Malformed, Valid(PyDict([display |-> PyStr(<<"b">>)]))>>
        [] OTHER -> <<>>)

HistorySnapshots ==
  {[projects |-> <<>>, history |-> HistoryFeed(n, order, extra), tz |-> tz] :
     n \in 0..MaxDates, order \in {"up", "down", "mixed"},
     extra \in {"none", "epoch", "untimed"}, tz \in {0, 28800}}

\* A tool_use item of the tool named t01, t02, ...
ToolUse(i) ==
  PyDict([type |-> PyStr(S_tool_use),
          name |-> PyStr(<<"t", DigitChar(i \div 10), DigitChar(i % 10)>>)])

\* How often tool i of n is used.
ToolCount(n, pattern, i) ==
  CASE pattern = "flat" -> 1
    [] pattern = "rising" -> 1 + (i % 3)
    [] OTHER -> 1 + ((n - i) % 3)

\* The tool_use items of the r-th round: one for every tool used r times or
\* more.
Round(n, pattern, r) ==
  SelectSeq([i \in 1..n |-> [tool |-> ToolUse(i), used |-> ToolCount(n, pattern, i)]],
            LAMBDA e : e.used >= r)

RoundItems(n, pattern, r) ==
  [i \in 1..Len(Round(n, pattern, r)) |-> Round(n, pattern, r)[i].tool]

\* The session files of n tools: all items in one assistant record, or one
\* record per round, among text and tool_result items, a tool_use item
\* without a name and a record of another type, in two projects.
ToolSnapshot(n, pattern, layout) ==
  IF layout = "one"
    THEN [projects |->
            <<ProjectDir("p1",
                <<SessionFile("s1",
                    <<Valid(AssistantRecord(PyList(
                        RoundItems(n, pattern, 1) \o RoundItems(n, pattern, 2)
                        \o RoundItems(n, pattern, 3))))>>)>>)>>,
          history |-> <<>>, tz |-> 0]
    ELSE [projects |->
            <<ProjectDir("p1",
                <<SessionFile("s1",
                    <<Valid(AssistantRecord(PyList(
                        <<TextItem(<<"a">>)>> \o RoundItems(n, pattern, 1)))),
                      Malformed,
                      Valid(UserRecord(PyStr(<<"b">>)))>>)>>),
              ProjectDir("p2",
                <<SessionFile("s1",
                    <<Valid(PyDict([type |-> PyStr(S_summary),
                                    message |-> PyDict([content |-> PyList(
                                      RoundItems(n, pattern, 2)
                                      \o <<PyDict([type |-> PyStr(S_tool_use)])>>)])]))>>),
                  SessionFile("s2",
                    <<Valid(AssistantRecord(PyList(
                        <<PyDict([type |-> PyStr(S_tool_result),
                                  content |-> PyStr(<<"c">>)])>>
                        \o RoundItems(n, pattern, 3))))>>)>>)>>,
          history |-> <<>>, tz |-> 0]

ToolSnapshots ==
  {ToolSnapshot(n, pattern, layout) :
     n \in 0..MaxTools, pattern \in {"flat", "rising", "falling"},
     layout \in {"one", "split"}}

InitStatistics == fs \in HistorySnapshots \cup ToolSnapshots /\ ret = NoRet

NextStatistics == ComputeStatistics

SpecStatistics == InitStatistics /\ [][NextStatistics]_vars

\* The history entries that carry a number as timestamp.
TimedEntries ==
  {i \in 1..Len(fs.history) :
     /\ fs.history[i].ok
     /\ fs.history[i].v.k = "dict"
     /\ get(fs.history[i].v, "timestamp", PyNone).k = "num"}

\* The calendar date of history entry i, as its "%Y-%m-%d" text.
DateOf(i) == strftime_ymd(fromtimestamp(get(fs.history[i].v, "timestamp", PyNone), fs.tz).date)

\* The dates of the entries E, and those among the DAILY_KEEP latest.
DatesOf(E) == {DateOf(i) : i \in E}

RecentDatesOf(E) ==
  {d \in DatesOf(E) : Cardinality({e \in DatesOf(E) : str_lt(d, e)}) < DAILY_KEEP}

\* daily_activity holds exactly the latest dates of the entries E, in
\* ascending order, each with the number of entries of E on that date.
DailyActivityIs(E) ==
  LET daily == ret.value.v.daily_activity IN
  /\ Len(daily) = Cardinality(RecentDatesOf(E))
  /\ {daily[i][1] : i \in 1..Len(daily)} = RecentDatesOf(E)
  /\ \A i \in 1..Len(daily) :
       /\ i < Len(daily) => str_lt(daily[i][1], daily[i + 1][1])
       /\ daily[i][2] = Cardinality({e \in E : DateOf(e) = daily[i][1]})

\* C7: daily_activity holds exactly the min(30, n) most recent of the n
\* dates that occur in the history feed, in ascending order, each with the
\* number of history entries that have a timestamp on that date.
C7_DailyActivityOfEveryTimestamp ==
  ret.op = "get_statistics" => ret.value.k = "ok" /\ DailyActivityIs(TimedEntries)

\* What the code does: the same of the entries whose timestamp is not 0.
DailyActivityOfNonZeroTimestamps ==
  ret.op = "get_statistics" =>
    /\ ret.value.k = "ok"
    /\ DailyActivityIs({i \in TimedEntries :
                          Truthy(get(fs.history[i].v, "timestamp", PyNone))})

\* A feed of 40 dates: the 30 latest are kept and the 10 oldest are not.
FortyDatesKeepThirty ==
  /\ ret.op = "get_statistics"
  /\ Cardinality(DatesOf(TimedEntries)) = 40
  /\ Len(ret.value.v.daily_activity) = DAILY_KEEP
  /\ ret.value.v.daily_activity[2][2] = 2

\* The content of the message of the record at line l of file j of project
\* i, where there is one.
ContentAt(i, j, l) ==
  get(get(fs.projects[i].files[j].lines[l].v, "message", EmptyDict), "content", PyStr(<<>>))

HasContentList(i, j, l) ==
  /\ fs.projects[i].files[j].lines[l].ok
  /\ fs.projects[i].files[j].lines[l].v.k = "dict"
  /\ get(fs.projects[i].files[j].lines[l].v, "message", EmptyDict).k = "dict"
  /\ ContentAt(i, j, l).k = "list"

\* The tool_use items of all records of all session files, as the places
\* <<project, file, line, item>> where they stand.
ToolUseItems ==
  UNION {UNION {UNION {
    IF HasContentList(i, j, l)
      THEN {<<i, j, l, n>> : n \in
              {n \in 1..Len(ContentAt(i, j, l).items) :
                 /\ ContentAt(i, j, l).items[n].k = "dict"
                 /\ get(ContentAt(i, j, l).items[n], "type", PyNone) = PyStr(S_tool_use)}}
      ELSE {} :
    l \in 1..Len(fs.projects[i].files[j].lines)} :
    j \in 1..Len(fs.projects[i].files)} :
    i \in 1..Len(fs.projects)}

\* The name of the tool_use item at a place; "unknown" for an item without.
ToolAt(p) == get(ContentAt(p[1], p[2], p[3]).items[p[4]], "name", PyStr(S_unknown))

Uses(name) == Cardinality({p \in ToolUseItems : ToolAt(p) = name})

UsedTools == {ToolAt(p) : p \in ToolUseItems}

KeptTools == {ret.value.v.tool_usage[i][1] : i \in 1..Len(ret.value.v.tool_usage)}

\* C8: tool_usage holds at most 20 tools in non-increasing order of count,
\* each with the number of tool_use items of that name in all records of
\* all session files, and no tool left out is used more than a tool kept.
C8_ToolUsageTopTwenty ==
  ret.op = "get_statistics" =>
    /\ ret.value.k = "ok"
    /\ LET usage == ret.value.v.tool_usage IN
       /\ Len(usage) = Min({TOOL_KEEP, Cardinality(UsedTools)})
       /\ Cardinality(KeptTools) = Len(usage)
       /\ KeptTools \subseteq UsedTools
       /\ \A i \in 1..Len(usage) :
            /\ usage[i][2] = Uses(usage[i][1])
            /\ i < Len(usage) => usage[i][2] >= usage[i + 1][2]
       /\ \A omitted \in UsedTools \ KeptTools :
            \A kept \in KeptTools : Uses(omitted) <= Uses(kept)

\* More than 20 tools of different counts, in several files: some are left
\* out, and the tool_use item without a name is counted.
C8_Witness ==
  /\ ret.op = "get_statistics"
  /\ Len(fs.projects) = 2
  /\ Cardinality(UsedTools) > TOOL_KEEP
  /\ Len(ret.value.v.tool_usage) = TOOL_KEEP
  /\ ret.value.v.tool_usage[1][2] = 3
  /\ ret.value.v.tool_usage[TOOL_KEEP][2] = 1
  /\ \E omitted \in UsedTools \ KeptTools : Uses(omitted) = 1
  /\ PyStr(S_unknown) \in UsedTools

(***************************************************************************)
(* Records of one tool item (C9, C10)                                      *)
(***************************************************************************)
MaxResultLen == 600

MaxCommandLen == 200

\* A string of n characters that differ from place to place.
Chars(n) == [i \in 1..n |-> <<"a", "b", "c", "d", "e", "f", "g">>[(i % 7) + 1]]

S_Bash == <<"B", "a", "s", "h">>

ToolResultItem(n) == PyDict([type |-> PyStr(S_tool_result), content |-> PyStr(Chars(n))])

\* An input that holds the given keys: a command of n characters, a
\* file_path and a pattern of n more than COMMAND_LIMIT.
ToolInput(keys, n) ==
  PyDict([key \in keys |->
            CASE key = "command" -> PyStr(Chars(n))
              [] key = "file_path" -> PyStr(<<"/">> \o Chars(COMMAND_LIMIT + n))
              [] OTHER -> PyStr(<<"*">> \o Chars(COMMAND_LIMIT + n))])

ToolUseItem(tool_input) ==
  PyDict([type |-> PyStr(S_tool_use), name |-> PyStr(S_Bash), input |-> tool_input])

ToolItems ==
  {ToolResultItem(n) : n \in 0..MaxResultLen}
  \cup {ToolUseItem(ToolInput(keys, n)) :
          keys \in SUBSET {"command", "file_path", "pattern"}, n \in 0..MaxCommandLen}
  \cup {PyDict([type |-> PyStr(S_tool_use), name |-> PyStr(S_Bash)])}

\* An assistant record whose content is the item, alone or after a text
\* item.
ToolSessions ==
  {OneSession(<<Valid(AssistantRecord(PyList(<<item>>)))>>) : item \in ToolItems}
  \cup {OneSession(<<Valid(AssistantRecord(PyList(<<TextItem(<<"x">>), item>>)))>>) :
          item \in ToolItems}

InitNormalize == fs \in ToolSessions /\ ret = NoRet

NextNormalize == ReadMessages("p1", "s1")

SpecNormalize == InitNormalize /\ [][NextNormalize]_vars

\* The items of the content of the record, and the tool item among them.
TheItems == get(get(TheLines[1].v, "message", EmptyDict), "content", PyStr(<<>>)).items

TheToolItem == TheItems[Len(TheItems)]

\* The content of the message shown for the record; empty when none is.
ShownContent == IF ret.value.v = <<>> THEN <<>> ELSE ret.value.v[1].content.s

\* The content shown when the tool item contributes the block.
ContentWith(block) == IF Len(TheItems) = 1 THEN block ELSE <<"x", "\n">> \o block

\* The content shown when the tool item contributes nothing.
ContentWithout == IF Len(TheItems) = 1 THEN <<>> ELSE <<"x">>

ResultString == get(TheToolItem, "content", PyNone).s

\* The labelled block of the claim: the first 500 characters and the marker
\* for a longer string, the string itself otherwise.
ResultBlock ==
  RESULT_LABEL \o
    (IF Len(ResultString) > 500
       THEN SubSeq(ResultString, 1, 500) \o <<".", ".", ".">>
       ELSE ResultString)

IsToolResultRead ==
  /\ ret.op = "get_session_messages"
  /\ get(TheToolItem, "type", PyNone) = PyStr(S_tool_result)

\* C9 as stated: a tool_result item whose content string is longer than 500
\* characters contributes a labelled block of its first 500 characters and
\* "...", and every content string of at most 500 characters is contributed
\* unchanged in a labelled block.
C9_AsStated ==
  IsToolResultRead => ret.value.k = "ok" /\ ShownContent = ContentWith(ResultBlock)

\* C9: a tool_result item whose content string is longer than 500
\* characters contributes a labelled block of its first 500 characters and
\* "...", a content string of 1 to 500 characters is contributed unchanged
\* in a labelled block, and an empty content string contributes nothing.
C9_ResultTruncatedAt500 ==
  IsToolResultRead =>
    /\ ret.value.k = "ok"
    /\ ShownContent =
         IF ResultString = <<>> THEN ContentWithout ELSE ContentWith(ResultBlock)

\* A result of 600 characters is shown as its first 500 and the marker.
C9_Witness ==
  /\ IsToolResultRead
  /\ Len(ResultString) = 600
  /\ Len(ShownContent) = Len(RESULT_LABEL) + 503
  /\ ShownContent[Len(RESULT_LABEL) + 500] = ResultString[500]
  /\ ShownContent[Len(RESULT_LABEL) + 500] # ResultString[600]

IsToolUseRead ==
  /\ ret.op = "get_session_messages"
  /\ get(TheToolItem, "type", PyNone) = PyStr(S_tool_use)

TheInput == get(TheToolItem, "input", EmptyDict)

Has(key) == key \in DOMAIN TheInput.d

\* The detail suffix of the claim.
DetailSuffix ==
  CASE Has("command") ->
         <<":", " ">> \o
           [i \in 1..(IF Len(TheInput.d["command"].s) < 100
                        THEN Len(TheInput.d["command"].s) ELSE 100) |->
              TheInput.d["command"].s[i]]
    [] ~Has("command") /\ Has("file_path") -> <<":", " ">> \o TheInput.d["file_path"].s
    [] ~Has("command") /\ ~Has("file_path") /\ Has("pattern") ->
         <<":", " ">> \o TheInput.d["pattern"].s
    [] OTHER -> <<>>

\* C10: a tool_use item contributes a one-line summary whose detail suffix
\* is the first 100 characters of command when input holds command, whatever
\* else it holds, else the whole file_path, else the whole pattern, else
\* nothing.
C10_DetailSuffixPriority ==
  IsToolUseRead =>
    /\ ret.value.k = "ok"
    /\ ShownContent = ContentWith(TOOL_OPEN \o S_Bash \o DetailSuffix \o <<"]">>)

\* A command of 200 characters beside a file_path and a pattern: the summary
\* holds the first 100 characters of the command.
C10_Witness ==
  /\ IsToolUseRead
  /\ Has("command") /\ Has("file_path") /\ Has("pattern")
  /\ Len(TheInput.d["command"].s) = 200
  /\ Len(ShownContent) = Len(TOOL_OPEN) + Len(S_Bash) + 2 + 100 + 1
  /\ ShownContent[Len(TOOL_OPEN) + Len(S_Bash) + 2 + 100] = TheInput.d["command"].s[100]

(***************************************************************************)
(* Records of list-shaped content (C11)                                    *)
(***************************************************************************)
MaxItems == 3

S_image == <<"i", "m", "a", "g", "e">>

\* The items a content list is made of: text items with text, with blank
\* and with empty text, bare strings, thinking items, an item of an
\* unrecognized type and a tool item.
ContentItems ==
  {TextItem(<<"a">>), TextItem(<<>>), TextItem(<<" ", "b", "\n">>),
   PyStr(<<"c">>), PyStr(<<>>),
   ThinkingItem(<<>>), ThinkingItem(<<"d">>),
   PyDict([type |-> PyStr(S_image), text |-> PyStr(<<"e">>)]),
   PyDict([type |-> PyStr(S_tool_use), name |-> PyStr(S_Bash)])}

\* The content lists of up to max items.
ContentLists(max) == UNION {[1..n -> ContentItems] : n \in 0..max}

\* A user or an assistant record whose content is a list.
InitContent ==
  /\ fs \in {OneSession(<<Valid(UserRecord(PyList(items)))>>) :
               items \in ContentLists(MaxItems)}
            \cup {OneSession(<<Valid(AssistantRecord(PyList(items)))>>) :
                    items \in ContentLists(MaxItems)}
  /\ ret = NoRet

NextContent == ReadMessages("p1", "s1")

SpecContent == InitContent /\ [][NextContent]_vars

\* The type of an item, where it has one.
TypeOf(item) == IF item.k = "dict" THEN get(item, "type", PyNone) ELSE PyNone

\* The fragment of one item by the rules of the content items.
Fragment(item) ==
  CASE item.k = "str" -> item.s
    [] TypeOf(item) = PyStr(S_text) -> get(item, "text", PyStr(<<>>)).s
    [] TypeOf(item) = PyStr(S_thinking) ->
         IF get(item, "thinking", PyStr(<<>>)).s = <<>> THEN <<>>
         ELSE THINKING_LABEL \o get(item, "thinking", PyStr(<<>>)).s
    [] TypeOf(item) = PyStr(S_tool_use) -> TOOL_OPEN \o get(item, "name", PyNone).s \o <<"]">>
    [] TypeOf(item) = PyStr(S_tool_result) -> RESULT_LABEL \o get(item, "content", PyNone).s
    [] OTHER -> <<>>

\* The fragments joined by one newline each.
RECURSIVE Joined(_)
Joined(fragments) ==
  IF fragments = <<>> THEN <<>>
  ELSE IF Len(fragments) = 1 THEN fragments[1]
  ELSE fragments[1] \o <<"\n">> \o Joined(Tail(fragments))

NonEmpty(fragment) == fragment # <<>>

\* The text of the claim: the fragments that are not empty, in item order.
JoinedFragments ==
  Joined(SelectSeq([i \in 1..Len(TheItems) |-> Fragment(TheItems[i])], NonEmpty))

\* C11: the normalized text of a list-shaped content is the fragments of
\* its items that are not empty, in item order, joined by one newline: a
\* text item gives its text, a bare string itself, a thinking item with
\* empty thinking and an item of an unrecognized type nothing, and no error
\* is raised; it is the content of the message shown, unless it is blank.
C11_FragmentsJoinedByNewline ==
  ret.op = "get_session_messages" =>
    /\ ret.value.k = "ok"
    /\ normalize(get(TheLines[1].v, "message", EmptyDict)) = PyStr(JoinedFragments)
    /\ IF strip(JoinedFragments) = <<>>
         THEN ret.value.v = <<>>
         ELSE Len(ret.value.v) = 1 /\ ShownContent = JoinedFragments

\* Between a text item and a bare string stands an item that contributes
\* nothing: the text shown holds one newline.
C11_Witness ==
  /\ ret.op = "get_session_messages"
  /\ Len(TheItems) = 3
  /\ TheItems[1] = TextItem(<<"a">>)
  /\ Fragment(TheItems[2]) = <<>>
  /\ TypeOf(TheItems[2]) = PyStr(S_image)
  /\ TheItems[3] = PyStr(<<"c">>)
  /\ ShownContent = <<"a", "\n", "c">>

(***************************************************************************)
(* Projects, session files and lines that come and grow (C12)              *)
(***************************************************************************)
\* The number of entries, files and lines a snapshot holds at most.
MaxSize == 6

\* The lines a file grows by: a malformed one, a user record, an assistant
\* record with a timestamp, a record of another type, a user record whose
\* timestamp is a number, and an assistant record whose model is a list.
CountedLines ==
  {Malformed,
   Valid(UserRecord(PyStr(<<"a">>))),
   Valid(Stamped(S_assistant, TS_JAN02)),
   Valid(Stamped(S_summary, TS_JAN10)),
   Valid(PyDict([type |-> PyStr(S_user), timestamp |-> PyNum(0, 5)])),
   Valid(PyDict([type |-> PyStr(S_assistant),
                 message |-> PyDict([model |-> PyList(<<>>)])]))}

RECURSIVE SumSeq(_)
SumSeq(xs) == IF xs = <<>> THEN 0 ELSE Head(xs) + SumSeq(Tail(xs))

LinesIn(files) == SumSeq([j \in 1..Len(files) |-> Len(files[j].lines)])

\* The entries, files and lines of the snapshot.
Size ==
  Len(fs.projects)
  + SumSeq([i \in 1..Len(fs.projects) |-> Len(fs.projects[i].files)])
  + SumSeq([i \in 1..Len(fs.projects) |-> LinesIn(fs.projects[i].files)])

InitCounts == fs = [projects |-> <<>>, history |-> <<>>, tz |-> 0] /\ ret = NoRet

NextCounts ==
  \/ /\ Size < MaxSize
     /\ CreateEntry(ProjectDir(Ids[Len(fs.projects) + 1], <<>>))
  \/ /\ Size < MaxSize
     /\ CreateEntry([id |-> Ids[Len(fs.projects) + 1], is_dir |-> FALSE, files |-> <<>>])
  \/ \E i \in 1..Len(fs.projects) :
       /\ Size < MaxSize
       /\ fs.projects[i].is_dir
       /\ CreateFile(i, SessionFile(Stems[Len(fs.projects[i].files) + 1], <<>>))
  \/ \E i \in 1..Len(fs.projects) :
       /\ Size < MaxSize
       /\ fs.projects[i].is_dir
       /\ CreateFile(i, [stem |-> Stems[Len(fs.projects[i].files) + 1], jsonl |-> FALSE,
                         lines |-> <<>>])
  \/ \E i \in 1..Len(fs.projects) : \E j \in 1..Len(fs.projects[i].files) :
       \E line \in CountedLines :
         /\ Size < MaxSize
         /\ AppendLine(i, j, line)
  \/ ComputeStatistics

SpecCounts == InitCounts /\ [][NextCounts]_vars

\* The sessions get_project_sessions returns for the k-th project that
\* get_all_projects returns.
SessionsOfListed(k) == get_project_sessions(fs, get_all_projects(fs)[k].id)

\* Every listing of a listed project returns.
AllListed == \A k \in 1..Len(get_all_projects(fs)) : SessionsOfListed(k).k = "ok"

MessageCounts(sessions) == SumSeq([i \in 1..Len(sessions) |-> sessions[i].message_count])

\* The sum of message_count over the sessions of the listed projects.
ListedMessages ==
  SumSeq([k \in 1..Len(get_all_projects(fs)) |-> MessageCounts(SessionsOfListed(k).v)])

\* C12: on every snapshot on which get_statistics and the listings return,
\* total_messages is the sum of message_count over every session that
\* get_project_sessions returns for every project get_all_projects returns.
C12_TotalMessagesIsSumOfMessageCounts ==
  (ret.op = "get_statistics" /\ ret.value.k = "ok" /\ AllListed) =>
    ret.value.v.total_messages = ListedMessages

\* Two session files of a project hold counted records, beside a record of
\* another type: the total is the 2 the listings add up to.
C12_Witness ==
  /\ ret.op = "get_statistics" /\ ret.value.k = "ok" /\ AllListed
  /\ Len(fs.projects) = 1
  /\ Len(get_all_projects(fs)) = 1
  /\ Len(SessionsOfListed(1).v) = 2
  /\ \A i \in 1..2 : SessionsOfListed(1).v[i].message_count = 1
  /\ LinesIn(fs.projects[1].files) = 3
  /\ ret.value.v.total_messages = 2

====
